---- MODULE Spec2Model ----
(***************************************************************************)
(* Model of Mac_changer.py: the MACChanger class (address validation,      *)
(* generation, scanning of command output, the set-address command         *)
(* sequence, verification) and the flag dispatch of main().                *)
(*                                                                         *)
(* A Python str is modelled as a sequence of one-character strings.        *)
(* An OS command is modelled by its outcome, chosen nondeterministically:  *)
(* "ok", "fail" (subprocess.CalledProcessError) or "exc" (any other        *)
(* exception, e.g. the utility is absent).                                 *)
(*                                                                         *)
(* A run starts on a platform the tool supports (Linux or macOS): on any   *)
(* other platform MACChanger.__init__ exits with code 1 before main looks  *)
(* at a flag.  Keyboard interrupts are not modelled.                       *)
(***************************************************************************)
EXTENDS Integers, Sequences, FiniteSets, TLC

VARIABLES
    \* ---- one run of main() ----
    system,      \* platform.system()
    args,        \* the parsed flags: interface, mac, random, list, show
    pc,          \* position of the run in main() and its callees
    log,         \* the OS commands issued so far, in order, with outcomes
    msgs,        \* kinds of messages printed so far (_error/_success/...)
    old_mac,     \* main: old_mac
    new_mac,     \* main: new_mac
    changed,     \* result of change_mac, None before it returns
    reread,      \* verify_change: current_mac
    verified,    \* result of verify_change, None before it returns
    exit_code,   \* process exit code, None while running
    todo,        \* list_interfaces: interfaces still to be queried
    adminUp,     \* OS side: the interface is administratively up
    \* ---- one call of a pure AddressCodec function ----
    op,          \* which function was applied, "none" before the call
    text,        \* its input: the candidate string, or the command's output
    drawn,       \* its input: the octets random.randint returned
    outcome,     \* its input: how the query command ended
    accepted,    \* the result of validate_mac
    output,      \* the result of generate_random_mac or get_current_mac
    raised       \* TRUE iff the call let an exception escape

runVars == <<system, args, pc, log, msgs, old_mac, new_mac, changed, reread,
             verified, exit_code, todo, adminUp>>
callVars == <<op, text, drawn, outcome, accepted, output, raised>>
vars == <<system, args, pc, log, msgs, old_mac, new_mac, changed, reread,
          verified, exit_code, todo, adminUp, op, text, drawn, outcome, accepted,
          output, raised>>

\* Python None where a str is expected (no str of the model is this sequence)
None == <<"None">>

(***************************************************************************)
(* Characters                                                              *)
(***************************************************************************)
HexLower == <<"0","1","2","3","4","5","6","7","8","9","a","b","c","d","e","f">>
HexUpper == <<"0","1","2","3","4","5","6","7","8","9","A","B","C","D","E","F">>
UpperLetters == <<"A","B","C","D","E","F","G">>
LowerLetters == <<"a","b","c","d","e","f","g">>

\* the character class [0-9A-Fa-f]
HexClass == {HexLower[i] : i \in 1..16} \cup {HexUpper[i] : i \in 1..16}
\* the character class [:-]
SepClass == {":", "-"}

\* str.lower() on one character
LowerChar(c) ==
    IF \E i \in 1..Len(UpperLetters) : UpperLetters[i] = c
    THEN LowerLetters[CHOOSE i \in 1..Len(UpperLetters) : UpperLetters[i] = c]
    ELSE c

\* str.lower()
lower(s) == [i \in 1..Len(s) |-> LowerChar(s[i])]

\* numeric value of a hexadecimal digit
HexVal(c) == (CHOOSE i \in 1..16 : HexLower[i] = LowerChar(c)) - 1

(***************************************************************************)
(* The regular expression ([0-9A-Fa-f]{2}[:-]){5}([0-9A-Fa-f]{2})          *)
(***************************************************************************)
PairLen == 2       \* {2}: hex digits per group
SepGroups == 5     \* {5}: groups that are followed by a separator
PatternLen == SepGroups * (PairLen + 1) + PairLen

\* [0-9A-Fa-f]{2} at position i of s
HexPairAt(s, i) ==
    /\ i + PairLen - 1 <= Len(s)
    /\ \A k \in 0..(PairLen - 1) : s[i + k] \in HexClass

\* the whole pattern matches s starting at position i
MacPatternAt(s, i) ==
    /\ i >= 1
    /\ i + PatternLen - 1 <= Len(s)
    /\ \A g \in 0..(SepGroups - 1) :
          /\ HexPairAt(s, i + g * (PairLen + 1))
          /\ s[i + g * (PairLen + 1) + PairLen] \in SepClass
    /\ HexPairAt(s, i + SepGroups * (PairLen + 1))

\* '$' without re.MULTILINE: the end of the string, or just before a newline
\* that is the last character of the string
DollarAt(s, i) ==
    \/ i = Len(s) + 1
    \/ (i = Len(s) /\ s[i] = "\n")

\* validate_mac: pattern.match(mac) with '^...$'
validate_mac(mac) ==
    /\ MacPatternAt(mac, 1)
    /\ DollarAt(mac, 1 + PatternLen)

RECURSIVE SearchFrom(_, _)
SearchFrom(s, i) ==
    IF i + PatternLen - 1 > Len(s) THEN None
    ELSE IF MacPatternAt(s, i) THEN SubSeq(s, i, i + PatternLen - 1)
    ELSE SearchFrom(s, i + 1)

RECURSIVE SearchLastFrom(_, _)
SearchLastFrom(s, i) ==
    IF i < 1 THEN None
    ELSE IF MacPatternAt(s, i) THEN SubSeq(s, i, i + PatternLen - 1)
    ELSE SearchLastFrom(s, i - 1)

re_search_last(s) == SearchLastFrom(s, Len(s) - PatternLen + 1)

\* re.search(pattern, s): group(0) of the leftmost match, None if none
re_search(s) == SearchFrom(s, 1)

(***************************************************************************)
(* generate_random_mac                                                     *)
(***************************************************************************)
OctetMax == 255    \* random.randint(0x00, 0xff)

\* f'{octet:02x}'
Hex2(octet) == <<HexLower[(octet \div 16) + 1], HexLower[(octet % 16) + 1]>>
Hex2Upper(octet) == <<HexUpper[(octet \div 16) + 1], HexUpper[(octet % 16) + 1]>>

RECURSIVE Join(_, _)
\* sep.join(parts)
Join(parts, sep) ==
    IF Len(parts) = 0 THEN <<>>
    ELSE IF Len(parts) = 1 THEN parts[1]
    ELSE parts[1] \o sep \o Join(Tail(parts), sep)

\* (x & 0xfe) | 0x02 on an 8-bit value
FirstOctetNoClear(x) == IF (x \div 2) % 2 = 1 THEN x ELSE x + 2
FirstOctet(x) ==
    LET cleared == x - (x % 2)                      \* x & 0xfe
    IN  IF (cleared \div 2) % 2 = 1 THEN cleared ELSE cleared + 2   \* | 0x02

\* the address built from the six drawn octets
generate_random_mac(octets) ==
    LET mac == [i \in 1..Len(octets) |->
                   IF i = 1 THEN FirstOctet(octets[1]) ELSE octets[i]]
    IN  Join([i \in 1..Len(mac) |-> Hex2(mac[i])], <<":">>)

(***************************************************************************)
(* get_current_mac: the part after the query command has run               *)
(***************************************************************************)
GetCurrentMacLast(result, stdout) == IF result = "ok" THEN re_search_last(stdout) ELSE None

\* result: how subprocess.check_output ended; stdout: its decoded output
get_current_mac(result, stdout) ==
    IF result = "ok" THEN re_search(stdout)
    ELSE None        \* both except clauses return None

\* the message get_current_mac prints
GetCurrentMacMsgs(result) ==
    IF result = "ok" THEN {} ELSE {"error:get_current_mac"}

Outcomes == {"ok", "fail", "exc"}

(***************************************************************************)
(* Input texts                                                             *)
(***************************************************************************)
\* how the OS (or a user) writes an address
FormatMac(octets, sep, upper) ==
    Join([i \in 1..Len(octets) |->
             IF upper THEN Hex2Upper(octets[i]) ELSE Hex2(octets[i])], <<sep>>)

OctetsA == <<2, 26, 60, 77, 94, 111>>          \* 02:1a:3c:4d:5e:6f
OctetsB == <<255, 255, 255, 255, 255, 255>>    \* ff:ff:ff:ff:ff:ff
OctetsC == <<170, 187, 204, 221, 238, 255>>    \* aa:bb:cc:dd:ee:ff

MacA == FormatMac(OctetsA, ":", FALSE)
MacB == FormatMac(OctetsB, ":", FALSE)
MacAHyphen == FormatMac(OctetsA, "-", FALSE)
MacCUpper == FormatMac(OctetsC, ":", TRUE)
MacAMixed == [i \in 1..Len(MacA) |-> IF i = 6 THEN "-" ELSE MacA[i]]

Replace(s, p, c) == [i \in 1..Len(s) |-> IF i = p THEN c ELSE s[i]]
Insert(s, p, c) == SubSeq(s, 1, p) \o <<c>> \o SubSeq(s, p + 1, Len(s))
Delete(s, p) == SubSeq(s, 1, p - 1) \o SubSeq(s, p + 1, Len(s))

MutChars == {"0", "f", "A", "g", "G", ":", "-", " ", "\n"}
ValidateBases == {MacA, MacAHyphen, MacCUpper, MacAMixed}

\* the strings validate_mac is applied to: well-formed addresses and every
\* one-character replacement, insertion and deletion of them, plus
\* addresses with a group missing or added
ValidateInputs ==
    ValidateBases
    \cup {Replace(s, p, c) : s \in ValidateBases, p \in 1..PatternLen, c \in MutChars}
    \cup UNION {{Insert(s, p, c) : p \in 0..Len(s), c \in MutChars} : s \in ValidateBases}
    \cup UNION {{Delete(s, p) : p \in 1..Len(s)} : s \in ValidateBases}
    \cup {SubSeq(MacA, 1, PatternLen - PairLen - 1), MacA \o <<":">> \o Hex2(0),
          MacA \o <<"\n", "\n">>, <<>>}

\* the octets random.randint draws: the first octet over its whole range with
\* the others fixed, and each other octet over its whole range in turn
DrawnInputs ==
    {<<x>> \o SubSeq(rest, 2, 6) : x \in 0..OctetMax, rest \in {OctetsA, OctetsB, OctetsC}}
    \cup {Replace(OctetsA, p, v) : p \in 2..6, v \in 0..OctetMax}

LinkEther == <<"l","i","n","k","/","e","t","h","e","r"," ">>
Brd == <<" ","b","r","d"," ">>

MaxPad == 1      \* copies of the filler text around the addresses of a scanned text

RECURSIVE Repeat(_, _)
Repeat(s, n) == IF n = 0 THEN <<>> ELSE s \o Repeat(s, n - 1)

\* texts the interface-query command may print: zero, one or two addresses
\* (well-formed, damaged or overlapping) between filler text
ScanPieces ==
    {<<>>, MacA, MacB, MacAHyphen, MacCUpper, MacAMixed,
     SubSeq(MacA, 1, PatternLen - 1), Replace(MacA, 4, "g"), Delete(MacA, 3),
     MacA \o <<":">> \o Hex2(0)}
ScanFillers ==
    UNION {{Repeat(LinkEther, n), Repeat(Brd, n), Repeat(<<"0">>, n),
            Repeat(<<":">>, n), Repeat(<<"\n">>, n)} : n \in 0..MaxPad}
ScanSecond == {<<>>, MacA, MacB, SubSeq(MacB, 1, PatternLen - 1)}
ScanTexts ==
    {f1 \o x \o f2 \o y : f1 \in ScanFillers, x \in ScanPieces,
                          f2 \in ScanFillers, y \in ScanSecond}

(***************************************************************************)
(* Calls of the pure functions on the inputs above                         *)
(***************************************************************************)
RunIdle ==
    /\ system = "Linux"
    /\ args = [interface |-> "<None>", mac |-> None, random |-> FALSE,
               list |-> FALSE, show |-> FALSE]
    /\ pc = "idle"
    /\ log = <<>>
    /\ msgs = {}
    /\ old_mac = None
    /\ new_mac = None
    /\ changed = "unset"
    /\ reread = None
    /\ verified = "unset"
    /\ exit_code = <<>>
    /\ todo = 0
    /\ adminUp = TRUE

CallIdle ==
    /\ op = "none"
    /\ text = <<>>
    /\ drawn = <<>>
    /\ outcome = "none"
    /\ accepted = FALSE
    /\ output = None
    /\ raised = FALSE

CallValidate ==
    /\ op = "none"
    /\ \E t \in ValidateInputs :
          /\ text' = t
          /\ accepted' = validate_mac(t)
    /\ op' = "validate_mac"
    /\ raised' = FALSE
    /\ UNCHANGED <<drawn, outcome, output>>
    /\ UNCHANGED runVars

CallGenerate ==
    /\ op = "none"
    /\ \E d \in DrawnInputs :
          /\ drawn' = d
          /\ output' = generate_random_mac(d)
    /\ op' = "generate_random_mac"
    /\ raised' = FALSE
    /\ UNCHANGED <<text, outcome, accepted>>
    /\ UNCHANGED runVars

CallGetCurrentMac ==
    /\ op = "none"
    /\ \E o \in Outcomes, t \in ScanTexts :
          /\ o # "ok" => t = <<>>
          /\ outcome' = o
          /\ text' = t
          /\ output' = get_current_mac(o, t)
    /\ op' = "get_current_mac"
    /\ raised' = FALSE
    /\ UNCHANGED <<drawn, accepted>>
    /\ UNCHANGED runVars

CodecInit == RunIdle /\ CallIdle
CodecNext == CallValidate \/ CallGenerate \/ CallGetCurrentMac
CodecSpec == CodecInit /\ [][CodecNext]_vars

(***************************************************************************)
(* What an address is, stated without the regular expression: the text is  *)
(* cut at every ':' and '-' and the pieces are inspected.                  *)
(***************************************************************************)
NumOctets == 6

RECURSIVE SplitAcc(_, _, _)
SplitAcc(t, i, cur) ==
    IF i > Len(t) THEN <<cur>>
    ELSE IF t[i] \in {":", "-"} THEN <<cur>> \o SplitAcc(t, i + 1, <<>>)
    ELSE SplitAcc(t, i + 1, Append(cur, t[i]))

Groups(t) == SplitAcc(t, 1, <<>>)

IsHexDigit(c) == \E i \in 1..16 : c = HexLower[i] \/ c = HexUpper[i]

\* six groups of exactly two hexadecimal digits
SixHexPairs(t) ==
    /\ Len(Groups(t)) = NumOctets
    /\ \A g \in 1..NumOctets :
          /\ Len(Groups(t)[g]) = 2
          /\ \A k \in 1..2 : IsHexDigit(Groups(t)[g][k])

SeparatorsOf(t) == {t[i] : i \in {j \in 1..Len(t) : t[j] \in {":", "-"}}}

\* ... joined by the same separator throughout
UniformMac(t) == SixHexPairs(t) /\ Cardinality(SeparatorsOf(t)) = 1

\* the value of the g-th group of an address
OctetOf(t, g) == 16 * HexVal(Groups(t)[g][1]) + HexVal(Groups(t)[g][2])
MacValue(t) == [g \in 1..NumOctets |-> OctetOf(t, g)]

\* the positions of t at which an address starts
MatchStarts(t) == {i \in 1..Len(t) : i + 16 <= Len(t) /\ SixHexPairs(SubSeq(t, i, i + 16))}
Leftmost(S) == CHOOSE i \in S : \A j \in S : i <= j

(***************************************************************************)
(* One run of main()                                                       *)
(***************************************************************************)
MaxIfaces == 2     \* most interfaces the enumeration command reports

NoInterface == "<None>"         \* args.interface is None
SupportedSystems == {"Linux", "Darwin"}

\* Python truthiness of an optional str
Truthy(s) == s # None /\ Len(s) > 0

\* what the user may pass to --mac
MacArgs ==
    {None, <<>>, MacA, MacAHyphen, MacCUpper, MacA \o <<"\n">>,
     SubSeq(MacA, 1, PatternLen - PairLen - 1), MacA \o <<":">> \o Hex2(0),
     Replace(MacA, 1, "g")}

\* what random.randint may draw in a run
RunDrawn == {OctetsA, OctetsB, <<1, 0, 10, 160, 9, 255>>}

\* what the interface query may print
QueryTexts ==
    {LinkEther, LinkEther \o MacB \o Brd \o MacB, LinkEther \o MacCUpper}

\* what the interface query may print after the address was set to nm
RereadTexts(nm) ==
    {LinkEther,
     LinkEther \o MacB \o Brd \o MacB,
     LinkEther \o nm \o Brd \o MacB}
    \cup (IF MacPatternAt(nm, 1)
          THEN {LinkEther \o FormatMac(MacValue(nm), ":", FALSE) \o Brd \o MacB,
                LinkEther \o FormatMac(MacValue(nm), ":", TRUE) \o Brd \o MacB}
          ELSE {})

MutatingCmds == {"down", "address", "up", "airport", "ether"}

Step(cmd, by, result) == [cmd |-> cmd, by |-> by, outcome |-> result]

Exit(code) ==
    /\ pc' = "exited"
    /\ exit_code' = <<code>>

Init ==
    /\ system \in SupportedSystems
    /\ args \in [interface : {NoInterface, "eth0"},
                 mac : MacArgs,
                 random : BOOLEAN, list : BOOLEAN, show : BOOLEAN]
    /\ pc = "start"
    /\ log = <<>>
    /\ msgs = {}
    /\ old_mac = None
    /\ new_mac = None
    /\ changed = "unset"
    /\ reread = None
    /\ verified = "unset"
    /\ exit_code = <<>>
    /\ todo = 0
    /\ adminUp \in BOOLEAN
    /\ CallIdle

\* MACChanger.__init__ and _print_banner
Construct ==
    /\ pc = "start"
    /\ IF system \notin SupportedSystems
       THEN /\ msgs' = msgs \cup {"error:unsupported_system"}
            /\ Exit(1)
       ELSE /\ msgs' = msgs \cup {"banner"}
            /\ pc' = "dispatch"
            /\ UNCHANGED exit_code
    /\ UNCHANGED <<system, args, log, old_mac, new_mac, changed, reread,
                   verified, todo, adminUp>>
    /\ UNCHANGED callVars

DispatchInterfaceFirst ==
    /\ pc = "dispatch"
    /\ IF args.interface = NoInterface \/ args.interface = ""
       THEN /\ msgs' = msgs \cup {"help"}
            /\ Exit(1)
       ELSE IF args.list
       THEN /\ pc' = "list_interfaces"
            /\ msgs' = msgs \cup {"info:available_interfaces"}
            /\ UNCHANGED exit_code
       ELSE /\ pc' = IF args.show THEN "show" ELSE "read_old"
            /\ UNCHANGED <<msgs, exit_code>>
    /\ UNCHANGED <<system, args, log, old_mac, new_mac, changed, reread,
                   verified, todo, adminUp>>
    /\ UNCHANGED callVars

\* main: the flag tests that precede the first OS command
Dispatch ==
    /\ pc = "dispatch"
    /\ IF args.list
       THEN /\ pc' = "list_interfaces"
            /\ msgs' = msgs \cup {"info:available_interfaces"}
            /\ UNCHANGED exit_code
       ELSE IF args.interface = NoInterface \/ args.interface = ""
       THEN /\ msgs' = msgs \cup {"help"}
            /\ Exit(1)
       ELSE /\ pc' = IF args.show THEN "show" ELSE "read_old"
            /\ UNCHANGED <<msgs, exit_code>>
    /\ UNCHANGED <<system, args, log, old_mac, new_mac, changed, reread,
                   verified, todo, adminUp>>
    /\ UNCHANGED callVars

\* list_interfaces: the enumeration command; main exits 0 after the listing
ListEnumerate ==
    /\ pc = "list_interfaces"
    /\ \E o \in Outcomes, n \in 0..MaxIfaces :
          /\ o # "ok" => n = 0
          /\ log' = Append(log, Step("enumerate", "list", o))
          /\ todo' = n
          /\ msgs' = IF o = "ok" THEN msgs ELSE msgs \cup {"error:list_interfaces"}
          /\ IF n = 0
             THEN Exit(0)
             ELSE pc' = "list_query" /\ UNCHANGED exit_code
    /\ UNCHANGED <<system, args, old_mac, new_mac, changed, reread, verified,
                   adminUp>>
    /\ UNCHANGED callVars

\* list_interfaces: get_current_mac for the next interface of the listing
ListQuery ==
    /\ pc = "list_query"
    /\ todo > 0
    /\ \E o \in Outcomes, t \in QueryTexts :
          /\ log' = Append(log, Step("query", "list", o))
          /\ msgs' = msgs \cup GetCurrentMacMsgs(o)
                          \cup {IF get_current_mac(o, t) # None
                                THEN "print:mac" ELSE "print:n/a"}
    /\ todo' = todo - 1
    /\ IF todo = 1
       THEN Exit(0)
       ELSE UNCHANGED <<pc, exit_code>>
    /\ UNCHANGED <<system, args, old_mac, new_mac, changed, reread, verified,
                   adminUp>>
    /\ UNCHANGED callVars

\* main: --show
ShowMode ==
    /\ pc = "show"
    /\ \E o \in Outcomes, t \in QueryTexts :
          /\ log' = Append(log, Step("query", "show", o))
          /\ msgs' = msgs \cup GetCurrentMacMsgs(o)
                          \cup (IF get_current_mac(o, t) # None
                                THEN {"info:current_mac"} ELSE {})
    /\ Exit(0)
    /\ UNCHANGED <<system, args, old_mac, new_mac, changed, reread, verified,
                   todo, adminUp>>
    /\ UNCHANGED callVars

ReadOldNoExit ==
    /\ pc = "read_old"
    /\ \E o \in Outcomes, t \in QueryTexts :
          /\ log' = Append(log, Step("query", "main", o))
          /\ old_mac' = get_current_mac(o, t)
          /\ msgs' = msgs \cup GetCurrentMacMsgs(o)
    /\ pc' = "new_mac"
    /\ UNCHANGED <<system, args, new_mac, changed, reread, verified, todo,
                   adminUp, exit_code>>
    /\ UNCHANGED callVars

\* main: read the current address before changing it
ReadOld ==
    /\ pc = "read_old"
    /\ \E o \in Outcomes, t \in QueryTexts :
          /\ log' = Append(log, Step("query", "main", o))
          /\ old_mac' = get_current_mac(o, t)
          /\ IF get_current_mac(o, t) = None
             THEN /\ msgs' = msgs \cup GetCurrentMacMsgs(o)
                  /\ Exit(1)
             ELSE /\ msgs' = msgs \cup GetCurrentMacMsgs(o) \cup {"info:current_mac"}
                  /\ pc' = "new_mac"
                  /\ UNCHANGED exit_code
    /\ UNCHANGED <<system, args, new_mac, changed, reread, verified, todo,
                   adminUp>>
    /\ UNCHANGED callVars

\* main: --random takes precedence over --mac
DetermineNewMac ==
    /\ pc = "new_mac"
    /\ IF args.random
       THEN /\ \E d \in RunDrawn : new_mac' = generate_random_mac(d)
            /\ log' = Append(log, Step("new_mac", "main", "ok"))
            /\ msgs' = msgs \cup {"info:generated"}
            /\ pc' = "change_mac"
            /\ UNCHANGED exit_code
       ELSE IF Truthy(args.mac)
       THEN /\ new_mac' = args.mac
            /\ log' = Append(log, Step("new_mac", "main", "ok"))
            /\ pc' = "change_mac"
            /\ UNCHANGED <<msgs, exit_code>>
       ELSE /\ msgs' = msgs \cup {"error:specify_mac_or_random"}
            /\ Exit(1)
            /\ UNCHANGED <<new_mac, log>>
    /\ UNCHANGED <<system, args, old_mac, changed, reread, verified, todo,
                   adminUp>>
    /\ UNCHANGED callVars

\* change_mac: a command failed; main then exits 1
ChangeFailed(o) ==
    /\ msgs' = msgs \cup (IF o = "fail"
                          THEN {"error:change_failed", "warning:sudo"}
                          ELSE {"error:unexpected"})
    /\ changed' = "false"
    /\ Exit(1)

ChangeMacNoValidate ==
    /\ pc = "change_mac"
    /\ msgs' = msgs \cup {"info:changing"}
    /\ pc' = IF system = "Darwin" THEN "airport" ELSE "down"
    /\ UNCHANGED <<changed, exit_code>>
    /\ UNCHANGED <<system, args, log, old_mac, new_mac, reread, verified, todo,
                   adminUp>>
    /\ UNCHANGED callVars

\* change_mac: the validation that precedes the commands
ChangeMacValidate ==
    /\ pc = "change_mac"
    /\ IF ~validate_mac(new_mac)
       THEN /\ msgs' = msgs \cup {"error:invalid_mac"}
            /\ changed' = "false"
            /\ Exit(1)
       ELSE /\ msgs' = msgs \cup {"info:changing"}
            /\ pc' = IF system = "Darwin" THEN "airport" ELSE "down"
            /\ UNCHANGED <<changed, exit_code>>
    /\ UNCHANGED <<system, args, log, old_mac, new_mac, reread, verified, todo,
                   adminUp>>
    /\ UNCHANGED callVars

\* change_mac, Linux: ip link set <interface> down
LinuxDown ==
    /\ pc = "down"
    /\ \E o \in Outcomes :
          /\ log' = Append(log, Step("down", "change_mac", o))
          /\ IF o = "ok"
             THEN /\ adminUp' = FALSE
                  /\ pc' = "address"
                  /\ UNCHANGED <<msgs, changed, exit_code>>
             ELSE /\ ChangeFailed(o)
                  /\ UNCHANGED adminUp
    /\ UNCHANGED <<system, args, old_mac, new_mac, reread, verified, todo>>
    /\ UNCHANGED callVars

LinuxAddressUnchecked ==
    /\ pc = "address"
    /\ \E o \in Outcomes :
          /\ log' = Append(log, Step("address", "change_mac", o))
          /\ pc' = "up"
    /\ UNCHANGED <<msgs, changed, exit_code>>
    /\ UNCHANGED <<system, args, old_mac, new_mac, reread, verified, todo,
                   adminUp>>
    /\ UNCHANGED callVars

\* change_mac, Linux: ip link set <interface> address <new_mac>
LinuxAddress ==
    /\ pc = "address"
    /\ \E o \in Outcomes :
          /\ log' = Append(log, Step("address", "change_mac", o))
          /\ IF o = "ok"
             THEN /\ pc' = "up"
                  /\ UNCHANGED <<msgs, changed, exit_code>>
             ELSE ChangeFailed(o)
    /\ UNCHANGED <<system, args, old_mac, new_mac, reread, verified, todo,
                   adminUp>>
    /\ UNCHANGED callVars

\* change_mac, Linux: ip link set <interface> up; then return True
LinuxUp ==
    /\ pc = "up"
    /\ \E o \in Outcomes :
          /\ log' = Append(log, Step("up", "change_mac", o))
          /\ IF o = "ok"
             THEN /\ adminUp' = TRUE
                  /\ changed' = "true"
                  /\ pc' = "verify"
                  /\ UNCHANGED <<msgs, exit_code>>
             ELSE /\ ChangeFailed(o)
                  /\ UNCHANGED adminUp
    /\ UNCHANGED <<system, args, old_mac, new_mac, reread, verified, todo>>
    /\ UNCHANGED callVars

\* change_mac, macOS: airport -z with check=False: its exit status is ignored
DarwinAirport ==
    /\ pc = "airport"
    /\ \E o \in Outcomes :
          /\ log' = Append(log, Step("airport", "change_mac", o))
          /\ IF o \in {"ok", "fail"}
             THEN /\ pc' = "ether"
                  /\ UNCHANGED <<msgs, changed, exit_code>>
             ELSE ChangeFailed(o)
    /\ UNCHANGED <<system, args, old_mac, new_mac, reread, verified, todo,
                   adminUp>>
    /\ UNCHANGED callVars

\* change_mac, macOS: ifconfig <interface> ether <new_mac>; then return True
DarwinEther ==
    /\ pc = "ether"
    /\ \E o \in Outcomes :
          /\ log' = Append(log, Step("ether", "change_mac", o))
          /\ IF o = "ok"
             THEN /\ changed' = "true"
                  /\ pc' = "verify"
                  /\ UNCHANGED <<msgs, exit_code>>
             ELSE ChangeFailed(o)
    /\ UNCHANGED <<system, args, old_mac, new_mac, reread, verified, todo,
                   adminUp>>
    /\ UNCHANGED callVars

VerifyExitOnMismatch ==
    /\ pc = "verify"
    /\ \E o \in Outcomes, t \in RereadTexts(new_mac) :
          LET current_mac == get_current_mac(o, t)
          IN  /\ log' = Append(log, Step("query", "verify_change", o))
              /\ reread' = current_mac
              /\ IF current_mac # None /\ lower(current_mac) = lower(new_mac)
                 THEN /\ verified' = "true"
                      /\ msgs' = msgs \cup GetCurrentMacMsgs(o) \cup {"success:changed"}
                      /\ Exit(0)
                 ELSE /\ verified' = "false"
                      /\ msgs' = msgs \cup GetCurrentMacMsgs(o)
                                      \cup {"error:verification_failed"}
                      /\ Exit(1)
    /\ UNCHANGED <<system, args, old_mac, new_mac, changed, todo, adminUp>>
    /\ UNCHANGED callVars

\* verify_change, whose result main ignores; main then returns (exit code 0)
VerifyChange ==
    /\ pc = "verify"
    /\ \E o \in Outcomes, t \in RereadTexts(new_mac) :
          LET current_mac == get_current_mac(o, t)
          IN  /\ log' = Append(log, Step("query", "verify_change", o))
              /\ reread' = current_mac
              /\ IF current_mac # None /\ lower(current_mac) = lower(new_mac)
                 THEN /\ verified' = "true"
                      /\ msgs' = msgs \cup GetCurrentMacMsgs(o) \cup {"success:changed"}
                 ELSE /\ verified' = "false"
                      /\ msgs' = msgs \cup GetCurrentMacMsgs(o)
                                      \cup {"error:verification_failed"}
    /\ Exit(0)
    /\ UNCHANGED <<system, args, old_mac, new_mac, changed, todo, adminUp>>
    /\ UNCHANGED callVars

Next ==
    \/ Construct
    \/ Dispatch
    \/ ListEnumerate
    \/ ListQuery
    \/ ShowMode
    \/ ReadOld
    \/ DetermineNewMac
    \/ ChangeMacValidate
    \/ LinuxDown
    \/ LinuxAddress
    \/ LinuxUp
    \/ DarwinAirport
    \/ DarwinEther
    \/ VerifyChange

Spec == Init /\ [][Next]_vars

(***************************************************************************)
(* C1: validate_mac(t) is true for every t made of six 2-digit hex groups  *)
(* joined uniformly by ':' or by '-', and false for every structural       *)
(* deviation (group count, non-hex character, group length, extraneous     *)
(* leading or trailing character, a trailing newline included).            *)
(***************************************************************************)
C1_ValidateExact ==
    op = "validate_mac" =>
        /\ UniformMac(text) => accepted = TRUE
        /\ ~SixHexPairs(text) => accepted = FALSE

(***************************************************************************)
(* C2: every generated address passes validate_mac, is six lowercase       *)
(* 2-digit hex groups joined by ':', has bit 0 of its first octet clear    *)
(* and bit 1 set, and carries the drawn octets 2-6 and the drawn upper six *)
(* bits of the first octet unchanged.                                      *)
(***************************************************************************)
C2_GeneratedAddress ==
    op = "generate_random_mac" =>
        /\ validate_mac(output) = TRUE
        /\ UniformMac(output)
        /\ SeparatorsOf(output) = {":"}
        /\ \A i \in 1..Len(output) : output[i] = LowerChar(output[i])
        /\ OctetOf(output, 1) % 2 = 0
        /\ (OctetOf(output, 1) \div 2) % 2 = 1
        /\ OctetOf(output, 1) \div 4 = drawn[1] \div 4
        /\ \A g \in 2..NumOctets : OctetOf(output, g) = drawn[g]

\* a draw whose first octet has bit 0 set and bit 1 clear, so that both
\* corrections act, and whose other octets have letters in their hex form
C2_Witness ==
    /\ op = "generate_random_mac"
    /\ drawn[1] % 4 = 1
    /\ drawn[2] = 255
    /\ output[1] = "f"

(***************************************************************************)
(* C6: get_current_mac returns the leftmost substring of the command       *)
(* output that is an address, also when a later one exists; it returns     *)
(* None exactly when the output holds no address; and it lets no exception *)
(* escape, also when the query command fails.                              *)
(***************************************************************************)
C6_FirstMatch ==
    op = "get_current_mac" =>
        /\ raised = FALSE
        /\ outcome # "ok" => output = None
        /\ outcome = "ok" =>
              /\ (output = None) <=> (MatchStarts(text) = {})
              /\ MatchStarts(text) # {} =>
                    output = SubSeq(text, Leftmost(MatchStarts(text)),
                                    Leftmost(MatchStarts(text)) + 16)

\* the scenario of the specification: two addresses, the first one is returned
C6_Witness ==
    /\ op = "get_current_mac"
    /\ outcome = "ok"
    /\ text = LinkEther \o MacA \o Brd \o MacB
    /\ output = MacA

(***************************************************************************)
(* Observations on a run                                                   *)
(***************************************************************************)
Exited == pc = "exited"
Issued(cmds) == {i \in 1..Len(log) : log[i].cmd \in cmds}
Mutated == Issued(MutatingCmds) # {}
ErrorMsgs ==
    {"error:unsupported_system", "error:get_current_mac", "error:list_interfaces",
     "error:specify_mac_or_random", "error:invalid_mac", "error:change_failed",
     "error:unexpected", "error:verification_failed"}
ErrorReported == msgs \cap ErrorMsgs # {}
InvalidMacGiven == args.mac # None /\ ~validate_mac(args.mac)

\* the step of a mutating run that a log entry belongs to:
\* 1 read current address, 2 compute new address, 3 set address, 4 re-read
Phase(e) ==
    IF e.cmd = "query" /\ e.by = "main" THEN 1
    ELSE IF e.cmd = "new_mac" THEN 2
    ELSE IF e.cmd \in MutatingCmds THEN 3
    ELSE IF e.cmd = "query" /\ e.by = "verify_change" THEN 4
    ELSE 0

(***************************************************************************)
(* C3 as stated: when the --mac address fails validation, no address-      *)
(* mutating OS command is ever issued in that run, an error is reported    *)
(* and the process exits with a non-zero code.                             *)
(***************************************************************************)
C3_InvalidMacNeverMutates ==
    InvalidMacGiven =>
        /\ ~Mutated
        /\ Exited => (exit_code # <<0>> /\ ErrorReported)

(***************************************************************************)
(* C3 amended: when the --mac address fails validation and --random is not *)
(* given, no address-mutating OS command is ever issued in that run; if    *)
(* moreover neither --list nor --show is given the process exits with code *)
(* 1; and if the run reaches change_mac, change_mac returns false and the  *)
(* invalid-format error is reported.                                       *)
(***************************************************************************)
C3_InvalidMacWithoutRandom ==
    (InvalidMacGiven /\ ~args.random) =>
        /\ ~Mutated
        /\ (Exited /\ ~args.list /\ ~args.show) => exit_code = <<1>>
        /\ changed # "unset" => (changed = "false" /\ "error:invalid_mac" \in msgs)

\* a run that handed a malformed --mac to change_mac and has exited
C3_Witness ==
    /\ InvalidMacGiven /\ ~args.random
    /\ Exited
    /\ new_mac = args.mac
    /\ changed = "false"
    /\ "error:invalid_mac" \in msgs
    /\ exit_code = <<1>>

(***************************************************************************)
(* C4: every run in which a validation failure occurs, a required argument *)
(* is missing, or an OS command fails (interface query, enumeration, a     *)
(* set-address step) ends with exit code 1, --list and --show included.    *)
(***************************************************************************)
C4_FailureExitsOne ==
    LET validationFailed == "error:invalid_mac" \in msgs
        argumentMissing == {"help", "error:specify_mac_or_random"} \cap msgs # {}
        commandFailed ==
            \E i \in Issued({"query", "enumerate", "down", "address", "up", "ether"}) :
                log[i].outcome # "ok"
    IN  (Exited /\ (validationFailed \/ argumentMissing \/ commandFailed))
            => exit_code = <<1>>

(***************************************************************************)
(* C5: after a successful set, verify_change reports success if and only   *)
(* if the re-read address and the requested address denote the same six    *)
(* octets, whatever the case of the digits and whichever separator the     *)
(* requested address was written with.                                     *)
(***************************************************************************)
C5_VerifyByValue ==
    (changed = "true" /\ verified # "unset" /\ SixHexPairs(new_mac)) =>
        ((verified = "true") <=>
            (reread # None /\ MacValue(reread) = MacValue(new_mac)))

C8_StepOrder ==
    LET P(i) == Phase(log[i])
        N == Len(log)
    IN  (~args.list /\ ~args.show) =>
        /\ \A i \in 1..N : P(i) \in 1..4
        /\ \A i, j \in 1..N : i < j => P(i) <= P(j)
        /\ \A i, j \in 1..N : (i < j /\ P(i) = P(j)) => log[i].cmd # log[j].cmd
        /\ \A i \in 1..N :
              (log[i].outcome # "ok" /\ ~(log[i].cmd = "airport" /\ log[i].outcome = "fail"))
                  => i = N
        /\ \A i \in 1..N : P(i) >= 2 => (P(1) = 1 /\ old_mac # None)
        /\ \A i \in 1..N : P(i) = 3 => \E j \in 1..i : P(j) = 2
        /\ \A i \in 1..N : P(i) = 4 => (changed = "true" /\ \E j \in 1..i : P(j) = 3)

\* a run that went through all four steps
C8_Witness ==
    /\ ~args.list /\ ~args.show
    /\ Exited
    /\ \A k \in 1..4 : \E i \in 1..Len(log) : Phase(log[i]) = k

(***************************************************************************)
(* C9: on Linux change_mac issues interface-down, set-address and          *)
(* interface-up in this order, each only after the previous one succeeded, *)
(* and returns true only if all three succeeded; if interface-down         *)
(* succeeds and set-address fails, interface-up is never issued and        *)
(* change_mac returns false with the interface left administratively down. *)
(***************************************************************************)
C9_LinuxSequence ==
    LET Ok(i, c) == i >= 1 /\ log[i].cmd = c /\ log[i].outcome = "ok"
    IN  system = "Linux" =>
        /\ Issued({"airport", "ether"}) = {}
        /\ \A i \in Issued({"address"}) : Ok(i - 1, "down")
        /\ \A i \in Issued({"up"}) : Ok(i - 1, "address")
        /\ \A c \in {"down", "address", "up"} : Cardinality(Issued({c})) <= 1
        /\ changed = "true" =>
              \A c \in {"down", "address", "up"} : \E i \in Issued({c}) : Ok(i, c)
        /\ \A i \in Issued({"address"}) :
              log[i].outcome # "ok" =>
                  /\ Issued({"up"}) = {}
                  /\ changed = "false"
                  /\ adminUp = FALSE

\* interface-down succeeded, set-address failed
C9_Witness ==
    /\ system = "Linux"
    /\ Exited
    /\ \E i \in Issued({"address"}) :
          /\ log[i].outcome = "fail"
          /\ log[i - 1].cmd = "down" /\ log[i - 1].outcome = "ok"
    /\ adminUp = FALSE

(***************************************************************************)
(* C10: once the set-address commands have succeeded the exit code does    *)
(* not depend on the verification: a run whose re-read address differs     *)
(* from the requested one, or cannot be read, reports the verification     *)
(* failure and still ends with exit code 0, like a verified change.        *)
(***************************************************************************)
C10_ExitIgnoresVerification ==
    (Exited /\ changed = "true") =>
        /\ exit_code = <<0>>
        /\ verified \in {"true", "false"}
        /\ verified = "false" => "error:verification_failed" \in msgs
        /\ (reread = None \/ lower(reread) # lower(new_mac)) => verified = "false"

\* the set succeeded and the re-read address is another one
C10_Witness ==
    /\ Exited /\ changed = "true"
    /\ reread # None /\ MacValue(reread) # MacValue(new_mac)
    /\ verified = "false"
    /\ exit_code = <<0>>

====
